---- MODULE Spec2Model ----
(***************************************************************************)
(* Model of displatecustom: the image-processing server (server.js, two    *)
(* versions kept in src/unnamed/part_000), i.e. the POST /process-image    *)
(* handler with its crop planner, and the React client (src/src/App.jsx,   *)
(* two versions).  Server version "focal" (lines 1-154) places the crop    *)
(* around the centre point sent with the request; version "centered"       *)
(* (lines 155-306) always centres it.  Client version "plain" (App.jsx     *)
(* lines 1-256) uploads the image; version "centering" (lines 257-787)     *)
(* lets the user pick the centre point first.                              *)
(*                                                                         *)
(* Numbers.  JavaScript numbers are doubles.  The model computes with      *)
(* exact rationals [num, den]; NaN is the record with den = 0.  The        *)
(* factor 1.4 is 7/5.  This is exact for the code's arithmetic:            *)
(*   - x * 1.4 and x / 1.4 for an integer x have fractional parts in       *)
(*     fifths and sevenths, never 1/2, so Math.round gives the same        *)
(*     integer for the double as for the rational;                         *)
(*   - the double 1.4 is below 7/5, so x * 1.4 <= y for integers x, y      *)
(*     holds for the doubles exactly when 7x <= 5y;                        *)
(*   - the centre fields the model sends are dyadic (0, 0.25, 0.5, 0.75,   *)
(*     1), which doubles represent exactly;                                *)
(*   - the client compares naturalHeight > naturalWidth * 1.4 and          *)
(*     |height / width - 1.4| > 0.1 in doubles; the image sizes the model  *)
(*     gives the client are away from both boundaries, where the double    *)
(*     and the rational comparison agree.  The preview rectangle is kept   *)
(*     as exact rationals (the doubles differ from them by rounding in     *)
(*     the last place only).                                               *)
(*                                                                         *)
(* Four specifications share the module's variables; each leaves the       *)
(* variables of the others at their initial values:                        *)
(*   Spec / FairSpec  one request at a time through the handler;           *)
(*   ServeSpec        the server process over a sequence of requests,      *)
(*                    with its listen-error and signal handlers;           *)
(*   ConcSpec         several requests in flight, their awaited steps      *)
(*                    interleaved;                                         *)
(*   ClientSpec       the React client (src/src/App.jsx, both versions).   *)
(***************************************************************************)
EXTENDS Integers, Sequences, FiniteSets, TLC

\* Largest source width and height (pixels) the model decodes.
MaxDim == 20

\* 2900: the short side of the output (finalWidth / finalHeight).
baseSize == 2900

\* The literal 1.4 as the fraction ratioNum / ratioDen.
ratioNum == 7
ratioDen == 5

VARIABLES
    variant,      \* which version of server.js is running
    pc,           \* position of the handler of the request being served
    hasFile,      \* req.file is set (multer found the field "image")
    fieldX,       \* String(req.body.centerX), a sequence of characters
    fieldY,       \* String(req.body.centerY)
    centerX,      \* const centerX
    centerY,      \* const centerY
    metadata,     \* const metadata: [width, height]
    finalWidth,
    finalHeight,
    cropWidth,
    cropHeight,
    left,
    top,
    ops,          \* what the handler did for this request
    threw,        \* which awaited call rejected, "none" if none did
    responses,    \* the responses written to res, in order
    \* the server process (ServeSpec)
    process,      \* "listening", "closing" (server.close called) or "exited"
    failedBefore, \* an earlier request of this process ended in 400 or 500
    \* requests in flight together (ConcSpec)
    reqs,         \* for each request, the locals of its handler invocation
    \* the client (ClientSpec): the state of App and what is in flight
    app,             \* which version of App.jsx is running
    files,           \* for each selected file, how far handleFile has come
    image,           \* useState image: the file whose data URL is shown
    validation,      \* useState validation: the warnings shown
    processing,      \* useState processing
    processedImage,  \* useState processedImage
    centerPoint,     \* useState centerPoint
    selectingCenter, \* useState selectingCenter
    previewRect,     \* useState previewRect
    proc,            \* the running handleProcess call and what it captured
    event,           \* the last image click made in selecting mode since
                     \* the last startCentering / cancelCentering
    natural          \* naturalWidth / naturalHeight of the <img> element

serverVars == <<variant, pc, hasFile, fieldX, fieldY, centerX, centerY,
                metadata, finalWidth, finalHeight, cropWidth, cropHeight,
                left, top, ops, threw, responses>>

serveVars == <<process, failedBefore>>

concVars == <<reqs>>

clientVars == <<app, files, image, validation, processing, processedImage,
                centerPoint, selectingCenter, previewRect, proc, event,
                natural>>

vars == <<serverVars, serveVars, concVars, clientVars>>

Variants == {"focal", "centered"}

----------------------------------------------------------------------------
(* Numbers *)

NaN == [num |-> 0, den |-> 0]
isNaN(x) == x.den = 0
Num(n, d) == [num |-> n, den |-> d]
NumEq(a, b) == ~isNaN(a) /\ ~isNaN(b) /\ a.num * b.den = b.num * a.den
InUnit(a) == ~isNaN(a) /\ 0 <= a.num /\ a.num <= a.den

\* Math.round(n / d) for d > 0: the nearest integer, halves towards +infinity.
MathRound(n, d) == (2 * n + d) \div (2 * d)

Min(a, b) == IF a <= b THEN a ELSE b
Max(a, b) == IF a >= b THEN a ELSE b

----------------------------------------------------------------------------
(* parseFloat on a character sequence: optional leading blanks, optional   *)
(* sign, decimal digits, optional fraction; anything after the longest     *)
(* numeric prefix is ignored; NaN when there is no digit.  (Exponents and  *)
(* "Infinity" are not among the strings the model sends.)                  *)

\* String(undefined): what parseFloat sees when the form has no such field.
undefined == <<"u", "n", "d", "e", "f", "i", "n", "e", "d">>

IsDigit(c) == c \in {"0", "1", "2", "3", "4", "5", "6", "7", "8", "9"}

DigitVal(c) ==
    CASE c = "0" -> 0 [] c = "1" -> 1 [] c = "2" -> 2 [] c = "3" -> 3
      [] c = "4" -> 4 [] c = "5" -> 5 [] c = "6" -> 6 [] c = "7" -> 7
      [] c = "8" -> 8 [] c = "9" -> 9

RECURSIVE BlankRun(_, _)
BlankRun(s, i) ==
    IF i <= Len(s) /\ s[i] = " " THEN 1 + BlankRun(s, i + 1) ELSE 0

RECURSIVE DigitRun(_, _)
DigitRun(s, i) ==
    IF i <= Len(s) /\ IsDigit(s[i]) THEN 1 + DigitRun(s, i + 1) ELSE 0

RECURSIVE DigitsValue(_, _, _)
DigitsValue(s, i, n) ==
    IF n = 0 THEN 0
    ELSE DigitsValue(s, i, n - 1) * 10 + DigitVal(s[i + n - 1])

RECURSIVE Pow10(_)
Pow10(n) == IF n = 0 THEN 1 ELSE 10 * Pow10(n - 1)

parseFloat(s) ==
    LET b    == 1 + BlankRun(s, 1)
        sgn  == IF b <= Len(s) /\ s[b] = "-" THEN -1 ELSE 1
        p    == IF b <= Len(s) /\ s[b] \in {"-", "+"} THEN b + 1 ELSE b
        ni   == DigitRun(s, p)
        q    == p + ni
        dot  == q <= Len(s) /\ s[q] = "."
        nf   == IF dot THEN DigitRun(s, q + 1) ELSE 0
    IN  IF ni + nf = 0 THEN NaN
        ELSE Num(sgn * (DigitsValue(s, p, ni) * Pow10(nf)
                          + DigitsValue(s, q + 1, nf)),
                 Pow10(nf))

\* The values of the form fields centerX and centerY the model sends.
Fields ==
    { undefined,
      <<"a", "b", "c">>,
      <<"0">>,
      <<"0", ".", "2", "5">>,
      <<"0", ".", "5">>,
      <<"0", ".", "7", "5">>,
      <<"1">> }

----------------------------------------------------------------------------
(* The crop planner.  The lines below are the same, character for          *)
(* character apart from comments, in both versions of server.js (focal:    *)
(* lines 61-92, centered: lines 205-244); both handlers use these          *)
(* operators.                                                              *)

\* const centerX = parseFloat(req.body.centerX) || 0.5;
\* NaN and 0 are the falsy numbers.
orDefault(x) == IF isNaN(x) \/ x.num = 0 THEN Num(1, 2) ELSE x

\* Variant of isVertical with >= for >: a square source counts as vertical.
isVerticalOrSquare(m) == m.height >= m.width

isVertical(m) == m.height > m.width

finalDimensions(m) ==
    IF isVertical(m)
    THEN [finalWidth  |-> baseSize,
          finalHeight |-> MathRound(baseSize * ratioNum, ratioDen)]
    ELSE [finalWidth  |-> MathRound(baseSize * ratioNum, ratioDen),
          finalHeight |-> baseSize]

\* Math.ceil(n / d) for d > 0.
MathCeil(n, d) == -((-n) \div d)

\* Variant of cropDimensions with Math.ceil for Math.round.
cropDimensionsCeil(m) ==
    IF isVertical(m)
    THEN IF m.width * ratioNum <= m.height * ratioDen
         THEN [cropWidth  |-> m.width,
               cropHeight |-> MathCeil(m.width * ratioNum, ratioDen)]
         ELSE [cropWidth  |-> MathCeil(m.height * ratioDen, ratioNum),
               cropHeight |-> m.height]
    ELSE IF m.height * ratioNum <= m.width * ratioDen
         THEN [cropWidth  |-> MathCeil(m.height * ratioNum, ratioDen),
               cropHeight |-> m.height]
         ELSE [cropWidth  |-> m.width,
               cropHeight |-> MathCeil(m.width * ratioDen, ratioNum)]

\* Variant of cropDimensions with the two fit tests reversed (> for <=), so
\* the axis that does not bind is taken whole.
cropDimensionsWrongAxis(m) ==
    IF isVertical(m)
    THEN IF m.width * ratioNum > m.height * ratioDen
         THEN [cropWidth  |-> m.width,
               cropHeight |-> MathRound(m.width * ratioNum, ratioDen)]
         ELSE [cropWidth  |-> MathRound(m.height * ratioDen, ratioNum),
               cropHeight |-> m.height]
    ELSE IF m.height * ratioNum > m.width * ratioDen
         THEN [cropWidth  |-> MathRound(m.height * ratioNum, ratioDen),
               cropHeight |-> m.height]
         ELSE [cropWidth  |-> m.width,
               cropHeight |-> MathRound(m.width * ratioDen, ratioNum)]

\* Variant of cropDimensions with Math.floor for Math.round.
cropDimensionsFloor(m) ==
    IF isVertical(m)
    THEN IF m.width * ratioNum <= m.height * ratioDen
         THEN [cropWidth  |-> m.width,
               cropHeight |-> (m.width * ratioNum) \div ratioDen]
         ELSE [cropWidth  |-> (m.height * ratioDen) \div ratioNum,
               cropHeight |-> m.height]
    ELSE IF m.height * ratioNum <= m.width * ratioDen
         THEN [cropWidth  |-> (m.height * ratioNum) \div ratioDen,
               cropHeight |-> m.height]
         ELSE [cropWidth  |-> m.width,
               cropHeight |-> (m.width * ratioDen) \div ratioNum]

cropDimensions(m) ==
    IF isVertical(m)
    THEN IF m.width * ratioNum <= m.height * ratioDen
         THEN [cropWidth  |-> m.width,
               cropHeight |-> MathRound(m.width * ratioNum, ratioDen)]
         ELSE [cropWidth  |-> MathRound(m.height * ratioDen, ratioNum),
               cropHeight |-> m.height]
    ELSE IF m.height * ratioNum <= m.width * ratioDen
         THEN [cropWidth  |-> MathRound(m.height * ratioNum, ratioDen),
               cropHeight |-> m.height]
         ELSE [cropWidth  |-> m.width,
               cropHeight |-> MathRound(m.width * ratioDen, ratioNum)]

\* Variant of focalOffset without the clamp to [0, extent - crop].
focalOffsetUnclamped(extent, crop, center) ==
    LET d    == 2 * center.den
        want == 2 * extent * center.num - crop * center.den
    IN  MathRound(want, d)

\* Variant of focalOffset with the half crop truncated to an integer.
focalOffsetIntegerHalf(extent, crop, center) ==
    LET d    == 2 * center.den
        want == 2 * extent * center.num - 2 * (crop \div 2) * center.den
    IN  MathRound(Max(0, Min((extent - crop) * d, want)), d)

\* focal version, lines 95-98, for one axis:
\*   Math.round(Math.max(0, Math.min(extent - crop, extent * center - crop / 2)))
\* computed over the common denominator 2 * center.den.
focalOffset(extent, crop, center) ==
    LET d    == 2 * center.den
        want == 2 * extent * center.num - crop * center.den
    IN  MathRound(Max(0, Min((extent - crop) * d, want)), d)

\* centered version, lines 247-248, for one axis:
\*   Math.round((extent - crop) / 2)
centeredOffset(extent, crop) == MathRound(extent - crop, 2)

\* sharp's extract() accepts a rectangle of positive size inside the image.
extractAreaOk ==
    /\ left >= 0 /\ top >= 0 /\ cropWidth >= 1 /\ cropHeight >= 1
    /\ left + cropWidth <= metadata.width
    /\ top + cropHeight <= metadata.height

----------------------------------------------------------------------------
(* Responses *)

noFileResponse ==
    [status |-> 400, type |-> "application/json",
     body |-> "error: No image file provided"]

failedResponse ==
    [status |-> 500, type |-> "application/json",
     body |-> "error: Failed to process image"]

imageResponse ==
    [status |-> 200, type |-> "image/jpeg", body |-> "processedBuffer"]

----------------------------------------------------------------------------
(* The server *)

noMetadata == [width |-> 0, height |-> 0]

\* The server process listens and no request has failed.
ServeIdle ==
    /\ process = "listening"
    /\ failedBefore = FALSE

\* The requests whose handlers run together in ConcSpec.
Requests == {"a", "b"}

\* The locals of a handler invocation that has not started.
noRequest ==
    [pc |-> "idle", hasFile |-> FALSE, fieldX |-> undefined,
     fieldY |-> undefined, centerX |-> NaN, centerY |-> NaN,
     metadata |-> noMetadata, finalWidth |-> 0, finalHeight |-> 0,
     cropWidth |-> 0, cropHeight |-> 0, left |-> 0, top |-> 0,
     threw |-> "none", responses |-> <<>>]

ConcIdle == reqs = [r \in Requests |-> noRequest]

\* The files the user selects, in this order.
Files == {1, 2}

\* null, for each kind of value the client's state holds.
nullPoint == [x |-> NaN, y |-> NaN]
nullRect == <<>>
nullValidation == [file |-> 0, warnings |-> <<>>]
nullProcessed == [image |-> 0, center |-> nullPoint]
noFile == [stage |-> "none", width |-> 0, height |-> 0]
noProcess == [pc |-> "idle", image |-> 0, center |-> nullPoint]
noEvent == [kind |-> "none", x |-> 0, y |-> 0]
notLoaded == [src |-> 0, width |-> 0, height |-> 0]

AppVariants == {"plain", "centering"}

\* App as mounted: every useState at its initial value, nothing in flight.
ClientMounted ==
    /\ files = [f \in Files |-> noFile]
    /\ image = 0
    /\ validation = nullValidation
    /\ processing = FALSE
    /\ processedImage = nullProcessed
    /\ centerPoint = nullPoint
    /\ selectingCenter = FALSE
    /\ previewRect = nullRect
    /\ proc = noProcess
    /\ event = noEvent
    /\ natural = notLoaded

ClientIdle == app = "centering" /\ ClientMounted

ServerInit ==
    /\ variant \in Variants
    /\ pc = "idle"
    /\ hasFile = FALSE
    /\ fieldX = undefined
    /\ fieldY = undefined
    /\ centerX = NaN
    /\ centerY = NaN
    /\ metadata = noMetadata
    /\ finalWidth = 0
    /\ finalHeight = 0
    /\ cropWidth = 0
    /\ cropHeight = 0
    /\ left = 0
    /\ top = 0
    /\ ops = {}
    /\ threw = "none"
    /\ responses = <<>>

ServerIdle == ServerInit /\ variant = "focal"

Init == ServerInit /\ ServeIdle /\ ConcIdle /\ ClientIdle

\* A request reaches the handler: a fresh invocation, with fresh locals.
\* fields: the values its centerX and centerY fields may have.
ReceiveOf(fields) ==
    /\ pc = "idle"
    /\ pc' = "entry"
    /\ hasFile' \in BOOLEAN
    /\ fieldX' \in fields
    /\ fieldY' \in fields
    /\ centerX' = NaN
    /\ centerY' = NaN
    /\ metadata' = noMetadata
    /\ finalWidth' = 0
    /\ finalHeight' = 0
    /\ cropWidth' = 0
    /\ cropHeight' = 0
    /\ left' = 0
    /\ top' = 0
    /\ ops' = {}
    /\ threw' = "none"
    /\ responses' = <<>>
    /\ UNCHANGED variant

Receive == ReceiveOf(Fields)

\* Variant of Catch that logs the error and writes no response.
CatchSilently(what) ==
    /\ threw' = what
    /\ pc' = "done"
    /\ UNCHANGED <<variant, hasFile, fieldX, fieldY, centerX, centerY,
                   metadata, finalWidth, finalHeight, cropWidth, cropHeight,
                   left, top, ops, responses>>

\* catch (error) { res.status(500).json(...) }
Catch(what) ==
    /\ threw' = what
    /\ responses' = Append(responses, failedResponse)
    /\ pc' = "done"
    /\ UNCHANGED <<variant, hasFile, fieldX, fieldY, centerX, centerY,
                   metadata, finalWidth, finalHeight, cropWidth, cropHeight,
                   left, top, ops>>

\* Variant of RespondNoFile without the test of req.file: the handler goes on,
\* req.file.originalname throws a TypeError and the catch block answers.
RespondNoFileUnguarded ==
    /\ pc = "entry"
    /\ ~hasFile
    /\ Catch("file")

\* if (!req.file) return res.status(400).json(...)
RespondNoFile ==
    /\ pc = "entry"
    /\ ~hasFile
    /\ responses' = Append(responses, noFileResponse)
    /\ pc' = "done"
    /\ UNCHANGED <<variant, hasFile, fieldX, fieldY, centerX, centerY,
                   metadata, finalWidth, finalHeight, cropWidth, cropHeight,
                   left, top, ops, threw>>

\* focal version: read the centre point, then await sharp(buffer).metadata()
ReadCenterFocal ==
    /\ pc = "entry"
    /\ hasFile
    /\ variant = "focal"
    /\ centerX' = orDefault(parseFloat(fieldX))
    /\ centerY' = orDefault(parseFloat(fieldY))
    /\ ops' = ops \cup {"metadata"}
    /\ pc' = "metadata"
    /\ UNCHANGED <<variant, hasFile, fieldX, fieldY, metadata, finalWidth,
                   finalHeight, cropWidth, cropHeight, left, top, threw,
                   responses>>

\* centered version: await sharp(buffer).metadata(); the fields are not read
ReadFileCentered ==
    /\ pc = "entry"
    /\ hasFile
    /\ variant = "centered"
    /\ ops' = ops \cup {"metadata"}
    /\ pc' = "metadata"
    /\ UNCHANGED <<variant, hasFile, fieldX, fieldY, centerX, centerY,
                   metadata, finalWidth, finalHeight, cropWidth, cropHeight,
                   left, top, threw, responses>>

\* The code from the resolved metadata() up to the awaited toBuffer().
Plan(m, l, t) ==
    /\ metadata' = m
    /\ finalWidth' = finalDimensions(m).finalWidth
    /\ finalHeight' = finalDimensions(m).finalHeight
    /\ cropWidth' = cropDimensions(m).cropWidth
    /\ cropHeight' = cropDimensions(m).cropHeight
    /\ left' = l
    /\ top' = t
    /\ ops' = ops \cup {"plan", "resample"}
    /\ pc' = "resample"
    /\ UNCHANGED <<variant, hasFile, fieldX, fieldY, centerX, centerY, threw,
                   responses>>

\* The sizes of the images the model decodes: every size up to MaxDim and
\* the two sizes of the documented examples.
ExampleSizes == {<<4000, 3000>>, <<1000, 2000>>}
SourceSizes == ((1..MaxDim) \X (1..MaxDim)) \cup ExampleSizes

\* sizes: the sizes metadata() may report.
PlanFocalOf(sizes) ==
    /\ pc = "metadata"
    /\ variant = "focal"
    /\ \E size \in sizes :
         LET m == [width |-> size[1], height |-> size[2]]
             c == cropDimensions(m)
         IN  Plan(m, focalOffset(m.width, c.cropWidth, centerX),
                     focalOffset(m.height, c.cropHeight, centerY))

PlanFocal == PlanFocalOf(SourceSizes)

PlanCenteredOf(sizes) ==
    /\ pc = "metadata"
    /\ variant = "centered"
    /\ \E size \in sizes :
         LET m == [width |-> size[1], height |-> size[2]]
             c == cropDimensions(m)
         IN  Plan(m, centeredOffset(m.width, c.cropWidth),
                     centeredOffset(m.height, c.cropHeight))

PlanCentered == PlanCenteredOf(SourceSizes)

\* sharp(buffer).metadata() rejects: the bytes are no image
MetadataRejected ==
    /\ pc = "metadata"
    /\ Catch("metadata")

\* the extract / resize / jpeg pipeline rejects
ResampleRejected ==
    /\ pc = "resample"
    /\ Catch("resample")

\* toBuffer() resolves: res.set('Content-Type', 'image/jpeg'); res.send(...)
SendImage ==
    /\ pc = "resample"
    /\ extractAreaOk
    /\ responses' = Append(responses, imageResponse)
    /\ pc' = "done"
    /\ UNCHANGED <<variant, hasFile, fieldX, fieldY, centerX, centerY,
                   metadata, finalWidth, finalHeight, cropWidth, cropHeight,
                   left, top, ops, threw>>

\* The handler has answered and returns: its locals are gone.
Return ==
    /\ pc = "done"
    /\ pc' = "idle"
    /\ hasFile' = FALSE
    /\ fieldX' = undefined
    /\ fieldY' = undefined
    /\ centerX' = NaN
    /\ centerY' = NaN
    /\ metadata' = noMetadata
    /\ finalWidth' = 0
    /\ finalHeight' = 0
    /\ cropWidth' = 0
    /\ cropHeight' = 0
    /\ left' = 0
    /\ top' = 0
    /\ ops' = {}
    /\ threw' = "none"
    /\ responses' = <<>>
    /\ UNCHANGED variant

HandlerStep ==
    \/ RespondNoFile
    \/ ReadCenterFocal
    \/ ReadFileCentered
    \/ PlanFocal
    \/ PlanCentered
    \/ MetadataRejected
    \/ ResampleRejected
    \/ SendImage

\* One request at a time: the rest of the module's state stays as it is.
Next ==
    \/ Receive /\ UNCHANGED <<serveVars, concVars, clientVars>>
    \/ RespondNoFile /\ UNCHANGED <<serveVars, concVars, clientVars>>
    \/ ReadCenterFocal /\ UNCHANGED <<serveVars, concVars, clientVars>>
    \/ ReadFileCentered /\ UNCHANGED <<serveVars, concVars, clientVars>>
    \/ PlanFocal /\ UNCHANGED <<serveVars, concVars, clientVars>>
    \/ PlanCentered /\ UNCHANGED <<serveVars, concVars, clientVars>>
    \/ MetadataRejected /\ UNCHANGED <<serveVars, concVars, clientVars>>
    \/ ResampleRejected /\ UNCHANGED <<serveVars, concVars, clientVars>>
    \/ SendImage /\ UNCHANGED <<serveVars, concVars, clientVars>>
    \/ Return /\ UNCHANGED <<serveVars, concVars, clientVars>>

Spec == Init /\ [][Next]_vars

\* Node runs the continuation of every settled promise, and sharp's promises
\* settle: a handler that has started takes its next step.
FairSpec == Spec /\ WF_vars(HandlerStep /\ UNCHANGED <<serveVars, concVars, clientVars>>)

----------------------------------------------------------------------------
(* The server process over a sequence of requests (ServeSpec).  The        *)
(* handler's steps are those above; the process ends only through the      *)
(* 'error' handler of app.listen (process.exit(1)) and through SIGTERM /   *)
(* SIGINT (server.close, then process.exit(0)).                            *)

ServeFields == {undefined, <<"0", ".", "5">>}
ServeSizes == {<<1, 1>>, <<10, 12>>, <<12, 10>>}

ServeInit == ServerInit /\ ServeIdle /\ ConcIdle /\ ClientIdle

ServeReceive ==
    /\ process = "listening"
    /\ ReceiveOf(ServeFields)
    /\ UNCHANGED <<process, failedBefore>>

ServeRespondNoFile ==
    /\ process # "exited"
    /\ RespondNoFile
    /\ failedBefore' = TRUE
    /\ UNCHANGED process

ServeRead ==
    /\ process # "exited"
    /\ ReadCenterFocal \/ ReadFileCentered
    /\ UNCHANGED <<process, failedBefore>>

ServePlan ==
    /\ process # "exited"
    /\ PlanFocalOf(ServeSizes) \/ PlanCenteredOf(ServeSizes)
    /\ UNCHANGED <<process, failedBefore>>

\* Variant of ServeCatch that treats the error as fatal, as the 'error'
\* handler of app.listen does: process.exit(1) after the response.
ServeCatchFatal ==
    /\ process # "exited"
    /\ MetadataRejected \/ ResampleRejected
    /\ failedBefore' = TRUE
    /\ process' = "exited"

\* The catch block answers 500 and the handler ends; nothing is rethrown.
ServeCatch ==
    /\ process # "exited"
    /\ MetadataRejected \/ ResampleRejected
    /\ failedBefore' = TRUE
    /\ UNCHANGED process

ServeSend ==
    /\ process # "exited"
    /\ SendImage
    /\ UNCHANGED <<process, failedBefore>>

ServeReturn ==
    /\ process # "exited"
    /\ Return
    /\ UNCHANGED <<process, failedBefore>>

\* server.on('error'): process.exit(1), whatever the handler is doing.
ListenError ==
    /\ process = "listening"
    /\ process' = "exited"
    /\ UNCHANGED <<serverVars, failedBefore>>

\* SIGTERM / SIGINT: server.close() stops accepting requests.
Signal ==
    /\ process = "listening"
    /\ process' = "closing"
    /\ UNCHANGED <<serverVars, failedBefore>>

\* The callback of server.close: no request is open any more; process.exit(0).
Closed ==
    /\ process = "closing"
    /\ pc \in {"idle", "done"}
    /\ process' = "exited"
    /\ UNCHANGED <<serverVars, failedBefore>>

ServeHandlerStep ==
    \/ ServeRespondNoFile
    \/ ServeRead
    \/ ServePlan
    \/ ServeCatch
    \/ ServeSend

ServeNext ==
    \/ ServeReceive /\ UNCHANGED <<concVars, clientVars>>
    \/ ServeRespondNoFile /\ UNCHANGED <<concVars, clientVars>>
    \/ ServeRead /\ UNCHANGED <<concVars, clientVars>>
    \/ ServePlan /\ UNCHANGED <<concVars, clientVars>>
    \/ ServeCatch /\ UNCHANGED <<concVars, clientVars>>
    \/ ServeSend /\ UNCHANGED <<concVars, clientVars>>
    \/ ServeReturn /\ UNCHANGED <<concVars, clientVars>>
    \/ ListenError /\ UNCHANGED <<concVars, clientVars>>
    \/ Signal /\ UNCHANGED <<concVars, clientVars>>
    \/ Closed /\ UNCHANGED <<concVars, clientVars>>

ServeSpec == ServeInit /\ [][ServeNext]_vars

\* As for FairSpec: while the process lives, a started handler goes on.
ServeFairSpec ==
    ServeSpec /\ WF_vars(ServeHandlerStep /\ UNCHANGED <<concVars, clientVars>>)

----------------------------------------------------------------------------
(* Several requests in flight (ConcSpec).  Each call of the async handler  *)
(* has its own req, res and const / let locals (reqs[r]); Node runs one    *)
(* stretch of code between two awaits at a time, in any order across the   *)
(* requests.  The module-level state (app, upload, PORT, HOST, server) is  *)
(* not written by the handler.                                             *)

ConcFields == {undefined, <<"0", ".", "2", "5">>, <<"1">>}
ConcSizes == {<<2, 1>>, <<1, 2>>, <<3, 3>>}

ConcInit == ServerInit /\ ServeIdle /\ ConcIdle /\ ClientIdle

\* Variant of localsOf for locals declared at module level (let centerX
\* outside the handler): a continuation sees what another request that has
\* come as far has written there.
localsOfShared(r) ==
    LET others == {o \in Requests \ {r} :
                      reqs[o].hasFile /\ reqs[o].pc \notin {"idle", "entry"}}
    IN  IF others = {} THEN reqs[r]
        ELSE LET o == CHOOSE o \in others : TRUE
             IN  [reqs[r] EXCEPT !.centerX = reqs[o].centerX,
                                 !.centerY = reqs[o].centerY]

\* The locals the continuation of request r finds: those of its own call.
localsOf(r) == reqs[r]

ConcReceive(r) ==
    /\ reqs[r].pc = "idle"
    /\ \E file \in BOOLEAN, fx \in ConcFields, fy \in ConcFields :
         reqs' = [reqs EXCEPT ![r] =
                    [noRequest EXCEPT !.pc = "entry", !.hasFile = file,
                                      !.fieldX = fx, !.fieldY = fy]]

ConcRespondNoFile(r) ==
    /\ reqs[r].pc = "entry"
    /\ ~reqs[r].hasFile
    /\ reqs' = [reqs EXCEPT ![r].responses = Append(@, noFileResponse),
                            ![r].pc = "done"]

ConcRead(r) ==
    /\ reqs[r].pc = "entry"
    /\ reqs[r].hasFile
    /\ reqs' = [reqs EXCEPT
                  ![r].centerX = IF variant = "focal"
                                 THEN orDefault(parseFloat(reqs[r].fieldX))
                                 ELSE @,
                  ![r].centerY = IF variant = "focal"
                                 THEN orDefault(parseFloat(reqs[r].fieldY))
                                 ELSE @,
                  ![r].pc = "metadata"]

ConcPlan(r) ==
    /\ reqs[r].pc = "metadata"
    /\ \E size \in ConcSizes :
         LET m == [width |-> size[1], height |-> size[2]]
             c == cropDimensions(m)
             f == finalDimensions(m)
             q == localsOf(r)
         IN  reqs' = [reqs EXCEPT ![r] =
                [q EXCEPT
                   !.metadata = m,
                   !.finalWidth = f.finalWidth,
                   !.finalHeight = f.finalHeight,
                   !.cropWidth = c.cropWidth,
                   !.cropHeight = c.cropHeight,
                   !.left = IF variant = "focal"
                            THEN focalOffset(m.width, c.cropWidth, q.centerX)
                            ELSE centeredOffset(m.width, c.cropWidth),
                   !.top = IF variant = "focal"
                           THEN focalOffset(m.height, c.cropHeight, q.centerY)
                           ELSE centeredOffset(m.height, c.cropHeight),
                   !.pc = "resample"]]

ConcCatch(r) ==
    /\ reqs[r].pc \in {"metadata", "resample"}
    /\ reqs' = [reqs EXCEPT ![r].threw = reqs[r].pc,
                            ![r].responses = Append(@, failedResponse),
                            ![r].pc = "done"]

ConcSend(r) ==
    /\ reqs[r].pc = "resample"
    /\ reqs' = [reqs EXCEPT ![r].responses = Append(@, imageResponse),
                            ![r].pc = "done"]

ConcNext ==
    \/ \E r \in Requests :
         ConcReceive(r) /\ UNCHANGED <<serverVars, serveVars, clientVars>>
    \/ \E r \in Requests :
         ConcRespondNoFile(r) /\ UNCHANGED <<serverVars, serveVars, clientVars>>
    \/ \E r \in Requests :
         ConcRead(r) /\ UNCHANGED <<serverVars, serveVars, clientVars>>
    \/ \E r \in Requests :
         ConcPlan(r) /\ UNCHANGED <<serverVars, serveVars, clientVars>>
    \/ \E r \in Requests :
         ConcCatch(r) /\ UNCHANGED <<serverVars, serveVars, clientVars>>
    \/ \E r \in Requests :
         ConcSend(r) /\ UNCHANGED <<serverVars, serveVars, clientVars>>

ConcSpec == ConcInit /\ [][ConcNext]_vars

----------------------------------------------------------------------------
(* The client (ClientSpec).  Rational arithmetic for the preview           *)
(* rectangle; NaN propagates as in JavaScript.  The only division by zero  *)
(* the client can make is 0 / 0 (an <img> not yet loaded), which is NaN.   *)

RECURSIVE Gcd(_, _)
Gcd(a, b) == IF b = 0 THEN a ELSE Gcd(b, a % b)

\* The number n / d in lowest terms with a positive denominator.
Norm(n, d) ==
    IF d = 0 THEN NaN
    ELSE LET s == IF d < 0 THEN -1 ELSE 1
             g == Gcd(IF n < 0 THEN -n ELSE n, s * d)
         IN  Num((s * n) \div g, (s * d) \div g)

Plus(a, b) ==
    IF isNaN(a) \/ isNaN(b) THEN NaN
    ELSE Norm(a.num * b.den + b.num * a.den, a.den * b.den)

Minus(a, b) ==
    IF isNaN(a) \/ isNaN(b) THEN NaN
    ELSE Norm(a.num * b.den - b.num * a.den, a.den * b.den)

Times(a, b) ==
    IF isNaN(a) \/ isNaN(b) THEN NaN ELSE Norm(a.num * b.num, a.den * b.den)

Over(a, b) ==
    IF isNaN(a) \/ isNaN(b) THEN NaN ELSE Norm(a.num * b.den, a.den * b.num)

\* a < b; false when either is NaN.
Less(a, b) == ~isNaN(a) /\ ~isNaN(b) /\ a.num * b.den < b.num * a.den

MathMin(a, b) ==
    IF isNaN(a) \/ isNaN(b) THEN NaN ELSE IF Less(b, a) THEN b ELSE a

MathMax(a, b) ==
    IF isNaN(a) \/ isNaN(b) THEN NaN ELSE IF Less(a, b) THEN b ELSE a

\* getBoundingClientRect() of the image container: as wide as the layout
\* makes it, three quarters as high (pt: '75%').
containerRect == [width |-> Num(8, 1), height |-> Num(6, 1)]

\* Mouse positions inside the container, relative to its top left corner.
Clicks == {<<2, 3>>, <<8, 6>>}

\* Pixel sizes of the files the user selects.
ClientSizes == {<<10, 12>>, <<12, 10>>, <<3000, 4300>>}

\* The warnings validateImage resolves with for a w x h image.
warningsOf(w, h) ==
    (IF w < baseSize \/ h < 4060 THEN <<"upscaled">> ELSE <<>>)
    \o (IF 2 * (IF ratioDen * h < ratioNum * w
                THEN ratioNum * w - ratioDen * h
                ELSE ratioDen * h - ratioNum * w) > w
        THEN <<"cropped">> ELSE <<>>)

\* isVertical of calculateCropPreview.
previewIsVertical(img) == ratioDen * img.height > ratioNum * img.width

calculateCropPreview(img, mouseX, mouseY) ==
    LET rect == containerRect
        ratio == Num(ratioNum, ratioDen)
        imageAspect == Over(Num(img.height, 1), Num(img.width, 1))
        containerAspect == Over(rect.height, rect.width)
        tall == Less(containerAspect, imageAspect)
        imageDisplayHeight ==
            IF tall THEN rect.height ELSE Times(rect.width, imageAspect)
        imageDisplayWidth ==
            IF tall THEN Over(rect.height, imageAspect) ELSE rect.width
        imageLeft ==
            IF tall THEN Over(Minus(rect.width, imageDisplayWidth), Num(2, 1))
            ELSE Num(0, 1)
        imageTop ==
            IF tall THEN Num(0, 1)
            ELSE Over(Minus(rect.height, imageDisplayHeight), Num(2, 1))
        cropW ==
            IF previewIsVertical(img)
            THEN MathMin(imageDisplayWidth, Over(imageDisplayHeight, ratio))
            ELSE Times(MathMin(imageDisplayHeight,
                               Over(imageDisplayWidth, ratio)), ratio)
        cropH ==
            IF previewIsVertical(img)
            THEN Times(cropW, ratio)
            ELSE MathMin(imageDisplayHeight, Over(imageDisplayWidth, ratio))
        cropLeft ==
            MathMax(imageLeft,
                    MathMin(Minus(Plus(imageLeft, imageDisplayWidth), cropW),
                            Minus(mouseX, Over(cropW, Num(2, 1)))))
        cropTop ==
            MathMax(imageTop,
                    MathMin(Minus(Plus(imageTop, imageDisplayHeight), cropH),
                            Minus(mouseY, Over(cropH, Num(2, 1)))))
    IN  [left |-> cropLeft, top |-> cropTop, width |-> cropW, height |-> cropH]

\* normalizedX, normalizedY of handleImageClick for a click at c.
normalized(c) ==
    [x |-> Over(Num(c[1], 1), containerRect.width),
     y |-> Over(Num(c[2], 1), containerRect.height)]

\* What the render offers.
showSetCenter ==
    /\ app = "centering" /\ image # 0
    /\ ~selectingCenter /\ processedImage = nullProcessed
    /\ centerPoint = nullPoint
showCancel == app = "centering" /\ image # 0 /\ selectingCenter
showConfirm == showCancel /\ centerPoint # nullPoint
showAdjustCenter ==
    /\ app = "centering" /\ image # 0
    /\ ~selectingCenter /\ centerPoint # nullPoint
    /\ processedImage = nullProcessed
showProcess ==
    IF app = "plain" THEN image # 0 /\ processedImage = nullProcessed
    ELSE showAdjustCenter

fileVars == <<files, image, validation, natural>>
centerVars == <<centerPoint, selectingCenter, previewRect, event>>
processVars == <<processing, processedImage, proc>>

ClientInit ==
    /\ ServerIdle /\ ServeIdle /\ ConcIdle
    /\ app \in AppVariants
    /\ ClientMounted

\* handleFile up to its await: the user drops or picks file f.
handleFile(f) ==
    /\ files[f].stage = "none"
    /\ \A g \in Files : g < f => files[g].stage # "none"
    /\ \E isImage \in BOOLEAN, size \in ClientSizes :
         files' = [files EXCEPT ![f] =
                     IF isImage
                     THEN [stage |-> "validating",
                           width |-> size[1], height |-> size[2]]
                     ELSE [noFile EXCEPT !.stage = "ignored"]]
    /\ UNCHANGED <<app, image, validation, natural, centerVars, processVars>>

\* img.onload in validateImage, then handleFile after its await.
validateImageOnload(f) ==
    /\ files[f].stage = "validating"
    /\ validation' = [file |-> f,
                      warnings |-> warningsOf(files[f].width, files[f].height)]
    /\ files' = [files EXCEPT ![f].stage = "reading"]
    /\ UNCHANGED <<app, image, natural, centerVars, processVars>>

\* Variant of readerOnload that also drops the processed image.
readerOnloadResetting(f) ==
    /\ files[f].stage = "reading"
    /\ image' = f
    /\ processedImage' = nullProcessed
    /\ files' = [files EXCEPT ![f].stage = "loaded"]
    /\ UNCHANGED <<app, validation, natural, centerVars, processing, proc>>

\* reader.onload of handleFile.
readerOnload(f) ==
    /\ files[f].stage = "reading"
    /\ image' = f
    /\ files' = [files EXCEPT ![f].stage = "loaded"]
    /\ UNCHANGED <<app, validation, natural, centerVars, processVars>>

\* The <img> has loaded the data URL of image: handleImageLoad.
handleImageLoad ==
    /\ app = "centering"
    /\ image # 0
    /\ natural.src # image
    /\ natural' = [src |-> image, width |-> files[image].width,
                   height |-> files[image].height]
    /\ previewRect' =
         IF centerPoint # nullPoint
         THEN << calculateCropPreview(natural',
                    Times(centerPoint.x, containerRect.width),
                    Times(centerPoint.y, containerRect.height)) >>
         ELSE previewRect
    /\ UNCHANGED <<app, files, image, validation, centerPoint,
                   selectingCenter, event, processVars>>

startCentering ==
    /\ showSetCenter \/ showAdjustCenter
    /\ selectingCenter' = TRUE
    /\ centerPoint' = nullPoint
    /\ previewRect' = nullRect
    /\ event' = noEvent
    /\ UNCHANGED <<app, fileVars, processVars>>

confirmCentering ==
    /\ showConfirm
    /\ selectingCenter' = FALSE
    /\ UNCHANGED <<app, fileVars, processVars, centerPoint, previewRect,
                   event>>

\* Variant of cancelCentering that keeps the centre point.
cancelCenteringKeepsPoint ==
    /\ showCancel
    /\ selectingCenter' = FALSE
    /\ previewRect' = nullRect
    /\ event' = noEvent
    /\ UNCHANGED <<app, fileVars, processVars, centerPoint>>

cancelCentering ==
    /\ showCancel
    /\ selectingCenter' = FALSE
    /\ centerPoint' = nullPoint
    /\ previewRect' = nullRect
    /\ event' = noEvent
    /\ UNCHANGED <<app, fileVars, processVars>>

handleMouseMove(c) ==
    /\ app = "centering"
    /\ image # 0
    /\ IF ~selectingCenter \/ centerPoint # nullPoint
       THEN UNCHANGED previewRect
       ELSE previewRect' =
              << calculateCropPreview(natural, Num(c[1], 1), Num(c[2], 1)) >>
    /\ UNCHANGED <<app, fileVars, processVars, centerPoint, selectingCenter,
                   event>>

handleImageClick(c) ==
    /\ app = "centering"
    /\ image # 0
    /\ IF ~selectingCenter
       THEN UNCHANGED <<centerPoint, previewRect, event>>
       ELSE /\ centerPoint' = normalized(c)
            /\ previewRect' =
                 << calculateCropPreview(natural, Num(c[1], 1),
                                         Num(c[2], 1)) >>
            /\ event' = [kind |-> "click", x |-> c[1], y |-> c[2]]
    /\ UNCHANGED <<app, fileVars, processVars, selectingCenter>>

\* handleProcess up to its first await; the call keeps the image and the
\* centerPoint of the render it was made from.
handleProcess ==
    /\ showProcess /\ ~processing
    /\ image # 0
    /\ app = "centering" => centerPoint # nullPoint
    /\ processing' = TRUE
    /\ proc' = [pc |-> "fetch", image |-> image, center |-> centerPoint]
    /\ UNCHANGED <<app, fileVars, centerVars, processedImage>>

\* fetch(image) and response.blob() resolve; the POST is sent.
sendRequest ==
    /\ proc.pc = "fetch"
    /\ proc' = [proc EXCEPT !.pc = "sent"]
    /\ UNCHANGED <<app, fileVars, centerVars, processing, processedImage>>

\* processedResponse.ok: setProcessedImage, then finally.
responseOk ==
    /\ proc.pc = "sent"
    /\ processedImage' = [image |-> proc.image, center |-> proc.center]
    /\ processing' = FALSE
    /\ proc' = noProcess
    /\ UNCHANGED <<app, fileVars, centerVars>>

\* Variant of responseNotOk without the finally block.
responseNotOkStaysBusy ==
    /\ proc.pc = "sent"
    /\ proc' = noProcess
    /\ UNCHANGED <<app, fileVars, centerVars, processing, processedImage>>

\* !processedResponse.ok: throw, catch, finally.
responseNotOk ==
    /\ proc.pc = "sent"
    /\ processing' = FALSE
    /\ proc' = noProcess
    /\ UNCHANGED <<app, fileVars, centerVars, processedImage>>

\* One of the awaited fetch / blob promises rejects: catch, finally.
fetchRejected ==
    /\ proc.pc \in {"fetch", "sent"}
    /\ processing' = FALSE
    /\ proc' = noProcess
    /\ UNCHANGED <<app, fileVars, centerVars, processedImage>>

ClientNext ==
    \/ \E f \in Files :
         handleFile(f) /\ UNCHANGED <<serverVars, serveVars, concVars>>
    \/ \E f \in Files :
         validateImageOnload(f) /\ UNCHANGED <<serverVars, serveVars, concVars>>
    \/ \E f \in Files :
         readerOnload(f) /\ UNCHANGED <<serverVars, serveVars, concVars>>
    \/ handleImageLoad /\ UNCHANGED <<serverVars, serveVars, concVars>>
    \/ startCentering /\ UNCHANGED <<serverVars, serveVars, concVars>>
    \/ confirmCentering /\ UNCHANGED <<serverVars, serveVars, concVars>>
    \/ cancelCentering /\ UNCHANGED <<serverVars, serveVars, concVars>>
    \/ \E c \in Clicks :
         handleMouseMove(c) /\ UNCHANGED <<serverVars, serveVars, concVars>>
    \/ \E c \in Clicks :
         handleImageClick(c) /\ UNCHANGED <<serverVars, serveVars, concVars>>
    \/ handleProcess /\ UNCHANGED <<serverVars, serveVars, concVars>>
    \/ sendRequest /\ UNCHANGED <<serverVars, serveVars, concVars>>
    \/ responseOk /\ UNCHANGED <<serverVars, serveVars, concVars>>
    \/ responseNotOk /\ UNCHANGED <<serverVars, serveVars, concVars>>
    \/ fetchRejected /\ UNCHANGED <<serverVars, serveVars, concVars>>

ClientSpec == ClientInit /\ [][ClientNext]_vars

----------------------------------------------------------------------------
(* Properties of the crop planner and of the handler *)

\* The handler has computed the target size and the crop rectangle.
planned == "plan" \in ops

\* The focal point the request asks for, as numbers.
requestedX == parseFloat(fieldX)
requestedY == parseFloat(fieldY)

Zero == Num(0, 1)
Half == Num(1, 2)
One  == Num(1, 1)

\* C1: in both versions, for every source size and every focal point, the
\* crop rectangle lies inside the source: 0 <= left, 0 <= top,
\* left + cropWidth <= width and top + cropHeight <= height.
C1_CropInsideSource ==
    planned =>
        /\ 0 <= left
        /\ 0 <= top
        /\ left + cropWidth <= metadata.width
        /\ top + cropHeight <= metadata.height

\* C1 witness: the focal point is on the right edge and the clamp holds the
\* rectangle against the source's right border.
C1_Witness ==
    /\ planned
    /\ variant = "focal"
    /\ NumEq(centerX, One)
    /\ left > 0
    /\ left + cropWidth = metadata.width

\* The crop's long side over its short side, rounded to one decimal, in tenths.
RatioTenths ==
    IF isVertical(metadata)
    THEN MathRound(10 * cropHeight, cropWidth)
    ELSE MathRound(10 * cropWidth, cropHeight)

\* C2 as stated: for every source size the crop's aspect ratio rounded to one
\* decimal is 1.4.
C2_RatioRoundsTo14 ==
    planned => RatioTenths = 14

\* C2 amended: the crop's aspect ratio rounded to one decimal is 1.4 whenever
\* the crop's short side is at least 12 pixels.
C2_RatioRoundsTo14FromTwelve ==
    planned /\ Min(cropWidth, cropHeight) >= 12 => RatioTenths = 14

\* C2 witness: a crop with a short side of at least 12 whose long side is cut
\* from the source and whose short side is a rounded quotient.
C2_Witness ==
    /\ planned
    /\ Min(cropWidth, cropHeight) >= 12
    /\ ~isVertical(metadata)
    /\ cropHeight < metadata.height
    /\ cropHeight * ratioNum # cropWidth * ratioDen
    /\ RatioTenths = 14

\* C3: the target is 2900 x 4060 exactly when height > width and 4060 x 2900
\* otherwise (square sources included), so long : short is 4060 : 2900.
C3_TargetByOrientation ==
    planned =>
        /\ IF metadata.height > metadata.width
           THEN finalWidth = 2900 /\ finalHeight = 4060
           ELSE finalWidth = 4060 /\ finalHeight = 2900
        /\ Max(finalWidth, finalHeight) * 2900
             = Min(finalWidth, finalHeight) * 4060

\* C3 witness: a source one pixel higher than wide gets the vertical target.
C3_Witness ==
    /\ planned
    /\ metadata.height = metadata.width + 1
    /\ finalWidth = 2900
    /\ finalHeight = 4060

\* n is the integer nearest to a / b (b > 0), a / b not being a half.
Nearest(n, a, b) == 2 * (n * b - a) < b /\ 2 * (a - n * b) < b

\* C4: the crop fits the source, one of its sides is the whole side of the
\* source, and the other side is round(1.4 x that side) or
\* round(that side / 1.4) as the four branches of the derivation give.
C4_LargestCropFits ==
    planned =>
        LET w == metadata.width
            h == metadata.height
        IN  /\ cropWidth <= w
            /\ cropHeight <= h
            /\ cropWidth = w \/ cropHeight = h
            /\ h > w /\ 7 * w <= 5 * h =>
                 cropWidth = w /\ Nearest(cropHeight, 7 * w, 5)
            /\ h > w /\ 7 * w > 5 * h =>
                 cropHeight = h /\ Nearest(cropWidth, 5 * h, 7)
            /\ h <= w /\ 7 * h <= 5 * w =>
                 cropHeight = h /\ Nearest(cropWidth, 7 * h, 5)
            /\ h <= w /\ 7 * h > 5 * w =>
                 cropWidth = w /\ Nearest(cropHeight, 5 * w, 7)

\* C4 witness: a vertical source narrower than 1 : 1.4, cropped to its full
\* width and to less than its height.
C4_Witness ==
    /\ planned
    /\ isVertical(metadata)
    /\ cropWidth = metadata.width
    /\ cropHeight < metadata.height
    /\ left = 0

\* C5 as stated: in the focal version a request for the focal point (0,0)
\* gets left = 0 and top = 0, and a request for (1,1) gets
\* left = width - cropWidth and top = height - cropHeight.
C5_FocalCorners ==
    planned /\ variant = "focal" =>
        /\ NumEq(requestedX, Zero) /\ NumEq(requestedY, Zero) =>
             left = 0 /\ top = 0
        /\ NumEq(requestedX, One) /\ NumEq(requestedY, One) =>
             /\ left = metadata.width - cropWidth
             /\ top = metadata.height - cropHeight

\* C6: in the focal version the focal point (0.5, 0.5) gives the left and
\* top of the centered version: round((width - cropWidth) / 2) and
\* round((height - cropHeight) / 2).
C6_HalfIsCentered ==
    planned /\ variant = "focal"
            /\ NumEq(centerX, Half) /\ NumEq(centerY, Half) =>
        /\ left = centeredOffset(metadata.width, cropWidth)
        /\ top = centeredOffset(metadata.height, cropHeight)

\* C6 witness: focal point (0.5, 0.5) on a source whose spare height is odd,
\* so that the offset is a rounded half.
C6_Witness ==
    /\ planned
    /\ variant = "focal"
    /\ NumEq(centerX, Half)
    /\ NumEq(centerY, Half)
    /\ (metadata.height - cropHeight) % 2 = 1
    /\ top = centeredOffset(metadata.height, cropHeight)

\* The focal coordinate the interface promises for a field.
PromisedCenter(given, used) ==
    IF isNaN(given) THEN NumEq(used, Half)
    ELSE InUnit(given) => NumEq(used, given)

\* C7 as stated: the focal coordinate is 0.5 only when the field is absent
\* or unparsable; every field that parses to a number in [0,1], 0 included,
\* is used unchanged.
C7_FieldUsedUnchanged ==
    variant = "focal" /\ "metadata" \in ops =>
        /\ PromisedCenter(requestedX, centerX)
        /\ PromisedCenter(requestedY, centerY)

\* C8: a request without a file is answered 400 with a JSON error body, and
\* the handler neither decodes, plans nor resamples for it.
C8_NoFileIs400 ==
    pc # "idle" /\ ~hasFile =>
        /\ ops = {}
        /\ threw = "none"
        /\ pc \in {"entry", "done"}
        /\ pc = "done" =>
             /\ Len(responses) = 1
             /\ responses[1].status = 400
             /\ responses[1].type = "application/json"

\* C8 witness: the handler has answered a request without a file.
C8_Witness ==
    /\ pc = "done"
    /\ ~hasFile
    /\ Len(responses) = 1
    /\ responses[1].status = 400

\* The responses of a request: none while the handler runs, one when it ends,
\* whose status tells how it ended.
OneResponse ==
    /\ pc \in {"entry", "metadata", "resample"} => responses = <<>>
    /\ pc = "done" =>
         /\ Len(responses) = 1
         /\ LET r == responses[1]
            IN  /\ r.status \in {200, 400, 500}
                /\ r.status = 400 <=> ~hasFile
                /\ r.status = 500 <=> threw # "none"
                /\ r.status = 200 <=>
                     hasFile /\ threw = "none"
                             /\ {"metadata", "plan", "resample"} \subseteq ops
                /\ r.status = 200 => r.type = "image/jpeg"
                /\ r.status # 200 => r.type = "application/json"

\* C9: every request that reaches the handler ends with exactly one
\* response: 200 image/jpeg when decode, extract and resize succeed, 400
\* without a file, 500 JSON when a step throws; a failing request gets no 200.
C9_ExactlyOneResponse ==
    /\ []OneResponse
    /\ (pc = "entry") ~> (pc = "done")

\* C9 witness: the resample step of a decoded image failed and the request
\* ended with the one response 500.
C9_Witness ==
    /\ pc = "done"
    /\ threw = "resample"
    /\ planned
    /\ Len(responses) = 1
    /\ responses[1].status = 500

\* C10: for every source size the crop's width and height, and the target's,
\* are at least 1.
C10_DimensionsPositive ==
    planned =>
        /\ cropWidth >= 1
        /\ cropHeight >= 1
        /\ finalWidth >= 1
        /\ finalHeight >= 1

\* C10 witness: the smallest source, 1 x 1, gets a 1 x 1 crop.
C10_Witness ==
    /\ planned
    /\ metadata.width = 1
    /\ metadata.height = 1
    /\ cropWidth = 1
    /\ cropHeight = 1

\* C13: the documented examples: a 4000 x 3000 source is horizontal and is
\* cropped to 4000 x 2857 for the target 4060 x 2900; a 1000 x 2000 source
\* is vertical and is cropped to 1000 x 1400 for the target 2900 x 4060.
C13_WorkedExamples ==
    planned =>
        /\ metadata = [width |-> 4000, height |-> 3000] =>
             /\ ~isVertical(metadata)
             /\ cropWidth = 4000 /\ cropHeight = 2857
             /\ finalWidth = 4060 /\ finalHeight = 2900
        /\ metadata = [width |-> 1000, height |-> 2000] =>
             /\ isVertical(metadata)
             /\ cropWidth = 1000 /\ cropHeight = 1400
             /\ finalWidth = 2900 /\ finalHeight = 4060

\* C13 witness: the handler has planned the crop of the 4000 x 3000 example.
C13_Witness ==
    /\ planned
    /\ metadata = [width |-> 4000, height |-> 3000]
    /\ cropHeight = 2857
    /\ pc = "done"
    /\ Len(responses) = 1
    /\ responses[1].status = 200

Abs(x) == IF x < 0 THEN -x ELSE x

\* C14: the crop's long side differs from 1.4 times its short side by less
\* than one pixel: |cropHeight - 1.4 cropWidth| < 1 when vertical,
\* |cropWidth - 1.4 cropHeight| < 1 when horizontal.
C14_LongSideWithinOnePixel ==
    planned =>
        IF metadata.height > metadata.width
        THEN Abs(5 * cropHeight - 7 * cropWidth) < 5
        ELSE Abs(5 * cropWidth - 7 * cropHeight) < 5

\* C14 witness: a source far from 1.4 : 1 whose crop's long side is a rounded
\* product that is not 1.4 times the short side.
C14_Witness ==
    /\ planned
    /\ metadata.height > 2 * metadata.width
    /\ 5 * cropHeight # 7 * cropWidth
    /\ Abs(5 * cropHeight - 7 * cropWidth) < 5

\* The step ends a request with a failure response (400 or 500).
RequestFails ==
    /\ pc # "done"
    /\ pc' = "done"
    /\ Len(responses') >= 1
    /\ responses'[1].status # 200

\* C12: a failing request does not end the server process: afterwards the
\* process is as it was, it still accepts a request while it listens, and a
\* later request with a file whose decoding and resampling succeed is
\* answered 200.
C12_FailureIsNotFatal ==
    /\ [][RequestFails => process' = process]_vars
    /\ [](failedBefore /\ process = "listening" /\ pc = "idle"
            => ENABLED ServeReceive)
    /\ [](failedBefore /\ pc = "done" /\ hasFile /\ threw = "none"
            => Len(responses) = 1 /\ responses[1].status = 200)
    /\ (failedBefore /\ pc = "entry")
          ~> (pc = "done" \/ process = "exited")

\* C12 witness: after a failed request the listening server has answered a
\* later one with 200.
C12_Witness ==
    /\ failedBefore
    /\ process = "listening"
    /\ pc = "done"
    /\ Len(responses) = 1
    /\ responses[1].status = 200

\* What the handler computes for a request with the locals q when it runs
\* alone, as far as q has come.
AsAlone(q) ==
    /\ q.pc \in {"metadata", "resample", "done"} /\ q.hasFile
         /\ variant = "focal" =>
           /\ q.centerX = orDefault(parseFloat(q.fieldX))
           /\ q.centerY = orDefault(parseFloat(q.fieldY))
    /\ q.metadata # noMetadata =>
         LET c == cropDimensions(q.metadata)
             f == finalDimensions(q.metadata)
         IN  /\ q.cropWidth = c.cropWidth /\ q.cropHeight = c.cropHeight
             /\ q.finalWidth = f.finalWidth /\ q.finalHeight = f.finalHeight
             /\ q.left =
                  IF variant = "focal"
                  THEN focalOffset(q.metadata.width, c.cropWidth,
                                   orDefault(parseFloat(q.fieldX)))
                  ELSE centeredOffset(q.metadata.width, c.cropWidth)
             /\ q.top =
                  IF variant = "focal"
                  THEN focalOffset(q.metadata.height, c.cropHeight,
                                   orDefault(parseFloat(q.fieldY)))
                  ELSE centeredOffset(q.metadata.height, c.cropHeight)
    /\ q.pc = "done" =>
         q.responses = << IF ~q.hasFile THEN noFileResponse
                          ELSE IF q.threw # "none" THEN failedResponse
                          ELSE imageResponse >>
    /\ q.pc # "done" => q.responses = <<>>

\* C11: with several requests in flight and their steps interleaved, every
\* request's centre, crop rectangle, target size and response are what the
\* handler computes for that request alone, and a step of one request
\* changes nothing of another.
C11_RequestsIndependent ==
    /\ [](\A r \in Requests : AsAlone(reqs[r]))
    /\ [][\A r \in Requests :
            reqs'[r] # reqs[r] =>
              \A o \in Requests \ {r} : reqs'[o] = reqs[o]]_vars

\* C11 witness: two requests with different centre points and different
\* images, both planned while the other was in flight, the second answered.
C11_Witness ==
    /\ variant = "focal"
    /\ reqs["a"].pc = "resample"
    /\ reqs["b"].pc = "done"
    /\ reqs["b"].threw = "none"
    /\ reqs["a"].hasFile /\ reqs["b"].hasFile
    /\ reqs["a"].metadata = [width |-> 2, height |-> 1]
    /\ reqs["b"].metadata = [width |-> 2, height |-> 1]
    /\ reqs["a"].left # reqs["b"].left

(* Properties of the client *)

\* C15 (as claimed): calculateCropPreview draws a portrait rectangle
\* (height = 1.4 x width) exactly when the server crops a portrait rectangle
\* (source height > source width), and a landscape rectangle
\* (width = 1.4 x height) otherwise.
C15_PreviewMatchesServer ==
    (/\ app = "centering"
     /\ natural.src # 0
     /\ centerPoint # nullPoint
     /\ previewRect # nullRect) =>
        LET r == previewRect[1]
            m == [width |-> natural.width, height |-> natural.height]
        IN  IF isVertical(m)
            THEN r.height = Times(r.width, Num(ratioNum, ratioDen))
            ELSE r.width = Times(r.height, Num(ratioNum, ratioDen))

\* C16: a handleProcess call is running only with an image (and, in the
\* centering version, a centre point) set when it started; processing is
\* true exactly while the call is running, and false again when the call
\* ends, whichever way it ends.
C16_ProcessingWhileInFlight ==
    /\ [](processing <=> proc.pc # "idle")
    /\ [](proc.pc # "idle" =>
            /\ proc.image # 0
            /\ app = "centering" => proc.center # nullPoint)
    /\ [][proc.pc # "idle" /\ proc'.pc = "idle" => ~processing']_vars

\* C16 witness: a request is in flight in the centering version, the
\* processing flag set.
C16_Witness ==
    /\ app = "centering"
    /\ proc.pc = "sent"
    /\ processing
    /\ proc.center = normalized(<<2, 3>>)

\* C17: centerPoint is null or the normalized coordinates of the most
\* recent image click made in selecting mode with no startCentering or
\* cancelCentering since; clicks and mouse moves outside selecting mode
\* change no state; confirmCentering changes only selectingCenter.
C17_CenterPointIsLastClick ==
    /\ [](centerPoint = IF event.kind = "click"
                        THEN normalized(<<event.x, event.y>>)
                        ELSE nullPoint)
    /\ [][\A c \in Clicks :
            ~selectingCenter /\ (handleImageClick(c) \/ handleMouseMove(c))
              => UNCHANGED clientVars]_vars
    /\ [][confirmCentering =>
            UNCHANGED <<app, fileVars, processVars, centerPoint,
                        previewRect, event>>]_vars

\* C17 witness: a point clicked in selecting mode and confirmed is the
\* centre point.
C17_Witness ==
    /\ app = "centering"
    /\ ~selectingCenter
    /\ centerPoint = normalized(<<8, 6>>)
    /\ event = [kind |-> "click", x |-> 8, y |-> 6]

\* C18 (as claimed): whenever a processed image is displayed, centerPoint
\* is non-null and equal to the centre point sent in the request that
\* produced it.
C18_ProcessedMatchesCenter ==
    (app = "centering" /\ processedImage # nullProcessed) =>
        /\ centerPoint # nullPoint
        /\ centerPoint = processedImage.center

\* C19 (as claimed): once the loads of all selected files have completed,
\* the warnings shown and the image shown belong to the file selected last.
C19_LastFileWins ==
    LET selected == {f \in Files : files[f].stage \notin {"none", "ignored"}}
    IN  (selected # {} /\ \A f \in selected : files[f].stage = "loaded") =>
            \A f \in selected :
                (\A g \in selected : g <= f) =>
                    validation.file = f /\ image = f

\* C20: once processedImage is set no step clears it, and from then on Set
\* Center Point, Adjust Center and Process Image are not offered, also
\* after a new image file is loaded.
C20_ProcessedImageStays ==
    /\ [][processedImage # nullProcessed =>
            processedImage' # nullProcessed]_vars
    /\ [](processedImage # nullProcessed =>
            /\ ~showSetCenter /\ ~showAdjustCenter /\ ~showProcess
            /\ ~ENABLED startCentering
            /\ ~ENABLED handleProcess)

\* C20 witness: an image has been processed and another file's image has
\* been loaded since.
C20_Witness ==
    /\ processedImage # nullProcessed
    /\ image # 0
    /\ image # processedImage.image
    /\ files[image].stage = "loaded"

====
